---- MODULE Spec2Model ----
(***************************************************************************)
(* A model of getProxySOCKS5.py: one execution of main(), i.e. one         *)
(* ProxyTester.run() against the artifacts left on disk by earlier runs.   *)
(*                                                                         *)
(* Python strings are sequences of tokens: a token stands for a run of     *)
(* characters ("1.2.3.4", "socks5") or for one significant character       *)
(* (":", " ", "#", "\n").  The token "://" holds a colon.  Latencies are   *)
(* the values of round(latency, 2), counted in hundredths of a second.     *)
(***************************************************************************)
EXTENDS Integers, Sequences, FiniteSets, TLC

VARIABLES
    pc,               \* position of the main thread inside main()/run()
    exitCode,         \* process exit code, -1 while the process runs
    files,            \* the artifacts in the working directory
    written,          \* names of the files this run has opened for writing
    previous_best,    \* run(): previous_best (<<>> is None)
    src,              \* fetch_all_proxies(): one future per source URL
    fetch_list,       \* fetch_all_proxies(): all_proxies
    all_proxies,      \* run(): all_proxies
    tasks,            \* test_proxies_batch(): future_to_proxy, in submit order
    all_results,      \* test_proxies_batch(): all_results
    working_proxies,  \* test_proxies_batch(): working_proxies
    prev_passed,      \* history: test_proxy_on_all_sites passed for previous_best
    validator_raised, \* history: a test_single_proxy call raised
    raised            \* main(): the exception that ended run() ("" for none)

vars == <<pc, exitCode, files, written, previous_best, src, fetch_list,
          all_proxies, tasks, all_results, working_proxies, prev_passed,
          validator_raised, raised>>

-----------------------------------------------------------------------------
(* Bounds of the model *)

\* latencies range over 1..MaxLatency hundredths of a second
MaxLatency == 2
\* run() passes max_tests=100; the model caps a batch at MaxTests candidates
MaxTests == 2
\* main() builds ProxyTester(max_workers=15), fewer threads than the 100
\* candidates of a batch; the model uses MaxWorkers threads
MaxWorkers == 1

-----------------------------------------------------------------------------
(* Module constants of the program *)

\* PROXY_SOURCES, cut down to two URLs
PROXY_SOURCES == <<"monosans/socks5.txt", "TheSpeedX/socks5.txt">>

TEST_WEBSITES == <<"https://icanhazip.com", "https://api.ipify.org", "http://httpbin.org/ip">>

Sources == 1..Len(PROXY_SOURCES)
Sites == 1..Len(TEST_WEBSITES)

-----------------------------------------------------------------------------
(* Python string operations on token sequences *)

IsSpace(t) == t \in {" ", "\n", "\t"}

\* ':' in s
HasColon(s) == \E i \in DOMAIN s : s[i] \in {":", "://"}

\* '://' in s
HasSchemeSep(s) == \E i \in DOMAIN s : s[i] = "://"

\* ' ' in s
HasBlank(s) == \E i \in DOMAIN s : s[i] = " "

RECURSIVE LStrip(_)
LStrip(s) == IF s # <<>> /\ IsSpace(Head(s)) THEN LStrip(Tail(s)) ELSE s

RECURSIVE RStrip(_)
RStrip(s) ==
    IF s # <<>> /\ IsSpace(s[Len(s)]) THEN RStrip(SubSeq(s, 1, Len(s) - 1)) ELSE s

\* s.strip()
Strip(s) == RStrip(LStrip(s))

\* s.split()[0] for a stripped, non-empty s
RECURSIVE FirstWord(_)
FirstWord(s) ==
    IF s = <<>> \/ IsSpace(Head(s)) THEN <<>> ELSE <<Head(s)>> \o FirstWord(Tail(s))

\* text.splitlines()
RECURSIVE SplitLinesFrom(_, _)
SplitLinesFrom(text, cur) ==
    IF text = <<>> THEN (IF cur = <<>> THEN <<>> ELSE <<cur>>)
    ELSE IF Head(text) = "\n" THEN <<cur>> \o SplitLinesFrom(Tail(text), <<>>)
    ELSE SplitLinesFrom(Tail(text), Append(cur, Head(text)))

SplitLines(text) == SplitLinesFrom(text, <<>>)

\* set(seq)
ToSet(seq) == {seq[i] : i \in DOMAIN seq}

\* orders in which an element can come twice
PermsWithRepeats(S) == [1..Cardinality(S) -> S]

\* the orders list(set(...)) followed by random.shuffle can produce
Perms(S) ==
    {p \in [1..Cardinality(S) -> S] : \A i, j \in DOMAIN p : i # j => p[i] # p[j]}

-----------------------------------------------------------------------------
(* Inputs: what the proxy lists hold *)

P1 == <<"1.2.3.4", ":", "1080">>
P1s == <<"socks5", "://", "1.2.3.4", ":", "1080">>
P2 == <<"5.6.7.8", ":", "1080">>

\* response bodies a source can serve
SourceBodies ==
    { P1 \o <<"\n", "#", " ", "comment", "\n">> \o P2 \o <<"\n">>,
      P1 \o <<"\n">>,
      P1s \o <<" ", "US", "\n", "\n", " ">> \o P2 \o <<" ", "\n">>,
      <<"#", " ", "comment", "\n", "\n">>,
      <<"localhost", "\n">> \o P2 }

\* what session.get(url) does for a source: an exception or a response
SourceResponses ==
    { [kind |-> k, status |-> 0, text |-> <<>>] : k \in {"Timeout", "ConnectionError"} }
    \cup { [kind |-> "http", status |-> 404, text |-> <<"Not", " ", "Found">>] }
    \cup { [kind |-> "http", status |-> 200, text |-> b] : b \in SourceBodies }

-----------------------------------------------------------------------------
(* fetch_proxies_from_source *)

\* response.raise_for_status() raises HTTPError
RaisesForStatus(status) == status >= 400 /\ status < 600

\* the body of the for loop over response.text.splitlines(): the candidates
\* one line contributes
ParseLine(raw) ==
    LET line == Strip(raw) IN
    IF line # <<>> /\ Head(line) # "#"
    THEN LET proxy == IF HasBlank(line) THEN FirstWord(line) ELSE line
         IN IF HasColon(proxy) THEN <<proxy>> ELSE <<>>
    ELSE <<>>

RECURSIVE ParseLines(_)
ParseLines(lines) ==
    IF lines = <<>> THEN <<>> ELSE ParseLine(Head(lines)) \o ParseLines(Tail(lines))

\* whether the try block of fetch_proxies_from_source ends in the except branch
SourceFetchFails(resp) == resp.kind # "http" \/ RaisesForStatus(resp.status)

\* the list fetch_proxies_from_source returns
FetchProxiesFromSource(resp) ==
    IF SourceFetchFails(resp) THEN <<>> ELSE ParseLines(SplitLines(resp.text))

-----------------------------------------------------------------------------
(* Inputs: what a probe through a proxy meets *)

OtherIP == <<"1.1.1.1">>
\* the public address of the machine that runs the script
ReferenceIP == <<"9.9.9.9">>
\* a body that is no address: an error page, a JSON document without address
NotAnIP == <<"<html>">>

IPv4Literals == {"1.1.1.1", "9.9.9.9"}

IsIPv4(s) == Len(s) = 1 /\ s[1] \in IPv4Literals

NoJson == [type |-> "none", keys |-> {}, ip |-> <<>>, origin |-> <<>>]

JsonObject(keys, value) ==
    [type |-> "object", keys |-> keys,
     ip |-> IF "ip" \in keys THEN value ELSE <<>>,
     origin |-> IF "origin" \in keys THEN value ELSE <<>>]

HttpResponse(status, ctype, text, json, elapsed) ==
    [kind |-> "http", status |-> status, ctype |-> ctype, text |-> text,
     json |-> json, elapsed |-> elapsed]

ProbeException(k) == [kind |-> k, status |-> 0, ctype |-> "", text |-> <<>>,
                      json |-> NoJson, elapsed |-> 0]

\* the echo site answers 200 with the exit address as plain text
PlainResponses ==
    { HttpResponse(200, "text/plain", OtherIP \o <<"\n">>, NoJson, l) : l \in 1..MaxLatency }

\* session.get raises, never returns, or answers without a body to record
FailedResponses ==
    { ProbeException(k) :
        k \in {"ConnectTimeout", "ReadTimeout", "ConnectionError", "ProxyError", "Hang"} }
    \cup { HttpResponse(500, "text/html", NotAnIP, NoJson, 1),
           HttpResponse(204, "text/plain", <<>>, NoJson, 1) }

\* the site answers 200 with another body: the caller's own address, a page,
\* a JSON document
OddAnswers ==
    { HttpResponse(200, "text/plain", ReferenceIP \o <<"\n">>, NoJson, 1),
      HttpResponse(200, "text/html", <<" ">> \o NotAnIP \o <<"\n">>, NoJson, 1),
      HttpResponse(200, "application/json", <<"{ip}">>, JsonObject({"ip"}, OtherIP), 1),
      HttpResponse(200, "application/json", <<"{origin}">>, JsonObject({"origin"}, OtherIP), 1),
      HttpResponse(200, "application/json", NotAnIP, JsonObject({}, <<>>), 1),
      HttpResponse(200, "application/json", <<"{">>, [NoJson EXCEPT !.type = "malformed"], 1),
      HttpResponse(200, "application/json", <<"5">>, [NoJson EXCEPT !.type = "number"], 1) }

OddResponses == FailedResponses \cup OddAnswers

ProbeResponses == PlainResponses \cup OddResponses

LastSite == Len(TEST_WEBSITES)

\* what the echo sites answer through one proxy.  Either every site gives a
\* plain answer, the sites after the first equally fast; or one site fails
\* (any site) or gives an odd answer (the last site, the JSON one) and the
\* others give a plain answer of latency 1.
ProbeWorlds ==
    { w \in [Sites -> PlainResponses] :
        \A s \in Sites \ {1} : w[s].elapsed = w[LastSite].elapsed }
    \cup { w \in [Sites -> ProbeResponses] :
             /\ Cardinality({s \in Sites : w[s] \in OddResponses}) = 1
             /\ \A s \in Sites : w[s] \in OddAnswers => s = LastSite
             /\ \A s \in Sites : w[s] \in PlainResponses => w[s].elapsed = 1 }

-----------------------------------------------------------------------------
(* test_single_proxy *)

\* the proxy URL handed to requests
ProxyUrl(proxy) == IF HasSchemeSep(proxy) THEN proxy ELSE <<"socks5", "://">> \o proxy

\* 'json' in response.headers.get('Content-Type', '')
IsJsonType(ctype) == ctype = "application/json"

\* the classes an exception is an instance of (requests.exceptions, builtins)
ExceptionBases(exc) ==
    CASE exc = "ConnectTimeout" ->
            {"ConnectTimeout", "ConnectionError", "Timeout", "RequestException", "Exception"}
      [] exc = "ReadTimeout" -> {"ReadTimeout", "Timeout", "RequestException", "Exception"}
      [] exc = "ProxyError" ->
            {"ProxyError", "ConnectionError", "RequestException", "Exception"}
      [] exc = "ConnectionError" -> {"ConnectionError", "RequestException", "Exception"}
      [] exc = "HTTPError" -> {"HTTPError", "RequestException", "Exception"}
      [] exc = "JSONDecodeError" -> {"JSONDecodeError", "ValueError", "Exception"}
      [] exc = "TypeError" -> {"TypeError", "Exception"}
      [] OTHER -> {}

\* the exception the try block of test_single_proxy raises, "" if none
ProbeRaises(resp) ==
    IF resp.kind # "http" THEN resp.kind
    ELSE IF RaisesForStatus(resp.status) THEN "HTTPError"
    ELSE IF resp.status = 200 /\ IsJsonType(resp.ctype) /\ resp.json.type = "malformed"
         THEN "JSONDecodeError"
    ELSE IF resp.status = 200 /\ IsJsonType(resp.ctype) /\ resp.json.type = "number"
         THEN "TypeError"
    ELSE ""

\* the except clauses without the final "except Exception"
ProbeHandlersNoCatchAll == <<"Timeout", "ProxyError", "ConnectionError", "RequestException">>

\* the except clauses of test_single_proxy, in order
ProbeHandlers ==
    <<"Timeout", "ProxyError", "ConnectionError", "RequestException", "Exception">>

ProbeCaught(exc) == \E i \in DOMAIN ProbeHandlers : ProbeHandlers[i] \in ExceptionBases(exc)

\* returned_ip
ReturnedIp(resp) ==
    IF IsJsonType(resp.ctype)
    THEN IF "ip" \in resp.json.keys THEN resp.json.ip
         ELSE IF "origin" \in resp.json.keys THEN resp.json.origin
         ELSE Strip(resp.text)
    ELSE Strip(resp.text)

NoResult == [proxy |-> <<>>, website |-> "", status_code |-> 0, ip |-> <<>>,
             latency |-> 0, success |-> FALSE]

\* test_single_proxy(proxy, website) when session.get behaves as resp:
\* tag "Result" with the dict, "None", "Raise", or "Hang" (no return at all)
TestSingleProxy(proxy, website, resp) ==
    IF resp.kind = "Hang" THEN [tag |-> "Hang", value |-> NoResult]
    ELSE IF ProbeRaises(resp) # ""
    THEN IF ProbeCaught(ProbeRaises(resp))
         THEN [tag |-> "None", value |-> NoResult]
         ELSE [tag |-> "Raise", value |-> NoResult]
    ELSE IF resp.status = 200
    THEN [tag |-> "Result",
          value |-> [proxy |-> proxy, website |-> website,
                     status_code |-> resp.status, ip |-> ReturnedIp(resp),
                     latency |-> resp.elapsed, success |-> TRUE]]
    ELSE [tag |-> "None", value |-> NoResult]

-----------------------------------------------------------------------------
(* test_proxy_on_all_sites *)

\* the loop without its "return []": a failed site is skipped
RECURSIVE TestSitesSkipFailed(_, _, _, _)
TestSitesSkipFailed(proxy, world, i, acc) ==
    IF i > Len(TEST_WEBSITES) THEN [tag |-> "Return", value |-> acc]
    ELSE LET result == TestSingleProxy(proxy, TEST_WEBSITES[i], world[i]) IN
         CASE result.tag = "Result" ->
                TestSitesSkipFailed(proxy, world, i + 1, Append(acc, result.value))
           [] result.tag = "None" -> TestSitesSkipFailed(proxy, world, i + 1, acc)
           [] OTHER -> [tag |-> result.tag, value |-> <<>>]

\* the for loop over TEST_WEBSITES from site i on, proxy_results being acc
RECURSIVE TestSitesFrom(_, _, _, _)
TestSitesFrom(proxy, world, i, acc) ==
    IF i > Len(TEST_WEBSITES) THEN [tag |-> "Return", value |-> acc]
    ELSE LET result == TestSingleProxy(proxy, TEST_WEBSITES[i], world[i]) IN
         CASE result.tag = "Result" ->
                TestSitesFrom(proxy, world, i + 1, Append(acc, result.value))
           [] result.tag = "None" -> [tag |-> "Return", value |-> <<>>]
           [] OTHER -> [tag |-> result.tag, value |-> <<>>]

\* test_proxy_on_all_sites(proxy): tag "Return" with the list, "Raise" or "Hang"
TestProxyOnAllSites(proxy, world) == TestSitesFrom(proxy, world, 1, <<>>)

\* the number of sites whose check through proxy yields a result
SitesOk(proxy, world) ==
    Cardinality({i \in Sites : TestSingleProxy(proxy, TEST_WEBSITES[i], world[i]).tag = "Result"})

-----------------------------------------------------------------------------
(* The artifacts and save_results *)

FileNames == {"proxy_results.json", "available_proxies.txt", "BEST_SOCKS5.txt",
              "proxy_report.html"}

NoJsonFile == [exists |-> FALSE, fetched |-> 0, tested |-> 0, working |-> 0,
               results |-> <<>>]
NoTxtFile == [exists |-> FALSE, kind |-> "", total |-> 0, count |-> 0, proxies |-> <<>>]
NoBestFile == [exists |-> FALSE, text |-> <<>>]
NoHtmlFile == [exists |-> FALSE, ranking |-> <<>>]

NoFiles == [json |-> NoJsonFile, txt |-> NoTxtFile, best |-> NoBestFile,
            html |-> NoHtmlFile]

\* sorted(results, key=lambda x: x['latency']): a stable sort
RECURSIVE InsertByLatency(_, _)
InsertByLatency(sorted, x) ==
    IF sorted = <<>> THEN <<x>>
    ELSE IF x.latency < Head(sorted).latency THEN <<x>> \o sorted
    ELSE <<Head(sorted)>> \o InsertByLatency(Tail(sorted), x)

RECURSIVE SortedByLatencyFrom(_, _)
SortedByLatencyFrom(results, sorted) ==
    IF results = <<>> THEN sorted
    ELSE SortedByLatencyFrom(Tail(results), InsertByLatency(sorted, Head(results)))

SortedByLatency(results) == SortedByLatencyFrom(results, <<>>)

\* best_proxy of save_results
BestProxy(results) == SortedByLatency(results)[1].proxy

\* generate_html_report: the keys of proxy_groups, in insertion order
RECURSIVE ProxyGroupKeys(_, _)
ProxyGroupKeys(results, keys) ==
    IF results = <<>> THEN keys
    ELSE ProxyGroupKeys(Tail(results),
                        IF Head(results).proxy \in ToSet(keys) THEN keys
                        ELSE Append(keys, Head(results).proxy))

RECURSIVE SumLatency(_, _)
SumLatency(results, proxy) ==
    IF results = <<>> THEN 0
    ELSE (IF Head(results).proxy = proxy THEN Head(results).latency ELSE 0)
         + SumLatency(Tail(results), proxy)

CountResults(results, proxy) ==
    Cardinality({i \in DOMAIN results : results[i].proxy = proxy})

\* one entry of proxy_stats; avg_latency is total / checks
ProxyStat(results, proxy) ==
    [proxy |-> proxy, total |-> SumLatency(results, proxy),
     checks |-> CountResults(results, proxy)]

\* a['avg_latency'] < b['avg_latency']
AvgLess(a, b) == a.total * b.checks < b.total * a.checks

\* proxy_stats.sort(key=lambda x: x['avg_latency']): a stable sort
RECURSIVE InsertByAvg(_, _)
InsertByAvg(sorted, x) ==
    IF sorted = <<>> THEN <<x>>
    ELSE IF AvgLess(x, Head(sorted)) THEN <<x>> \o sorted
    ELSE <<Head(sorted)>> \o InsertByAvg(Tail(sorted), x)

RECURSIVE SortedByAvgFrom(_, _)
SortedByAvgFrom(stats, sorted) ==
    IF stats = <<>> THEN sorted
    ELSE SortedByAvgFrom(Tail(stats), InsertByAvg(sorted, Head(stats)))

\* the table generate_html_report writes
HtmlRanking(results) ==
    LET keys == ProxyGroupKeys(results, <<>>)
        stats == [i \in DOMAIN keys |-> ProxyStat(results, keys[i])]
    IN SortedByAvgFrom(stats, <<>>)

\* detailed_results of save_results
DetailedResults(results, working, count) ==
    [exists |-> TRUE, fetched |-> count,
     tested |-> Cardinality({results[i].proxy : i \in DOMAIN results}),
     working |-> Len(working), results |-> results]

\* the content of available_proxies.txt save_results writes
ProxyListFile(working, count) ==
    [exists |-> TRUE, kind |-> "list", total |-> count, count |-> Len(working),
     proxies |-> working]

\* "if working_proxies and results" of save_results
WritesBest(results, working) == working # <<>> /\ results # <<>>

\* the order in which save_results opens its files
SaveOrder == <<"proxy_results.json", "available_proxies.txt", "BEST_SOCKS5.txt",
               "proxy_report.html">>

SavePosition(name) == CHOOSE i \in DOMAIN SaveOrder : SaveOrder[i] = name

\* the files save_results opens, and those it gets to write when open() fails
\* for failAt ("" for no failure)
SaveOpens(results, working) ==
    { n \in FileNames : n = "BEST_SOCKS5.txt" => WritesBest(results, working) }

SaveRaises(results, working, failAt) == failAt \in SaveOpens(results, working)

SaveWrites(results, working, failAt) ==
    { n \in SaveOpens(results, working) :
        ~SaveRaises(results, working, failAt) \/ SavePosition(n) < SavePosition(failAt) }

\* the artifacts after save_results(results, working, count)
SaveResults(fs, results, working, count, failAt) ==
    LET w == SaveWrites(results, working, failAt) IN
    [json |-> IF "proxy_results.json" \in w
              THEN DetailedResults(results, working, count) ELSE fs.json,
     txt |-> IF "available_proxies.txt" \in w
             THEN ProxyListFile(working, count) ELSE fs.txt,
     best |-> IF "BEST_SOCKS5.txt" \in w
              THEN [exists |-> TRUE, text |-> BestProxy(results)] ELSE fs.best,
     html |-> IF "proxy_report.html" \in w
              THEN [exists |-> TRUE, ranking |-> HtmlRanking(results)] ELSE fs.html]

\* the places where opening a file for writing can fail
FailPoints == FileNames \cup {""}

\* the three results of a candidate that answers every site in l hundredths
PlainResults(proxy, l) ==
    [i \in Sites |->
        [proxy |-> proxy, website |-> TEST_WEBSITES[i], status_code |-> 200,
         ip |-> OtherIP, latency |-> l, success |-> TRUE]]

\* what earlier runs can have left on disk: nothing, or the artifacts of a
\* scan of three candidates that found two
PriorFiles ==
    { NoFiles,
      SaveResults(NoFiles, PlainResults(P2, 2) \o PlainResults(P1s, 1), <<P2, P1s>>, 3, "") }

-----------------------------------------------------------------------------
(* load_previous_best_proxy *)

LoadPreviousBestProxy(fs) ==
    IF fs.best.exists
    THEN LET proxy == Strip(fs.best.text)
         IN IF proxy # <<>> /\ HasColon(proxy) THEN proxy ELSE <<>>
    ELSE <<>>

-----------------------------------------------------------------------------
(* The state machine *)

\* every candidate string a run can meet
Candidates ==
    (UNION {ToSet(FetchProxiesFromSource(resp)) : resp \in SourceResponses}
     \cup {LoadPreviousBestProxy(fs) : fs \in PriorFiles}) \ {<<>>}

\* what test_proxy_on_all_sites(proxy) can do, over all the answers the echo
\* sites can give: its return, and the number of sites whose check succeeds
ProbeOutcomes ==
    [proxy \in Candidates |->
        {[r |-> TestProxyOnAllSites(proxy, world), sites_ok |-> SitesOk(proxy, world)] :
            world \in ProbeWorlds}]

IdleSource == [status |-> "idle", failed |-> FALSE, proxies |-> <<>>, collected |-> FALSE]

QueuedTask(proxy) ==
    [proxy |-> proxy, status |-> "queued", outcome |-> "", result |-> <<>>,
     passed |-> FALSE, sites_ok |-> 0]

Init ==
    /\ pc = "start"
    /\ exitCode = -1
    /\ files \in PriorFiles
    /\ written = {}
    /\ previous_best = <<>>
    /\ src = [s \in Sources |-> IdleSource]
    /\ fetch_list = <<>>
    /\ all_proxies = <<>>
    /\ tasks = <<>>
    /\ all_results = <<>>
    /\ working_proxies = <<>>
    /\ prev_passed = FALSE
    /\ validator_raised = FALSE
    /\ raised = ""

\* fetch_all_proxies: one fetch_proxies_from_source is submitted per source
SubmittedSources == [s \in Sources |-> [IdleSource EXCEPT !.status = "pending"]]

\* main() ending with exit code 0 whatever run() raised
MainExitSwallows(exc) == 0

\* main(): the exit code of the process when run() ends with exception exc
\* ("" when it returns): both except clauses call sys.exit(1)
MainExit(exc) ==
    IF exc = "" THEN 0
    ELSE IF exc = "KeyboardInterrupt" THEN 1
    ELSE 1

\* save_results and the write of run() have no except clause: a failing
\* open() leaves as OSError
SaveException(raises) == IF raises THEN "OSError" ELSE ""

\* the fast path never taken
FastPathNever(test_result) == FALSE

\* run(): "if test_result:" after the revalidation of the previous best
FastPathHit(test_result) == test_result # <<>>

\* run(), step 1: load the previous best
RunStart ==
    /\ pc = "start"
    /\ previous_best' = LoadPreviousBestProxy(files)
    /\ IF previous_best' # <<>>
       THEN pc' = "revalidate" /\ src' = src
       ELSE pc' = "fetch" /\ src' = SubmittedSources
    /\ UNCHANGED <<exitCode, files, written, fetch_list, all_proxies, tasks,
                   all_results, working_proxies, prev_passed, validator_raised,
                   raised>>

\* run(), step 1: test the previous best on the main thread; on success save
\* and return, which ends main() with the summary and exit code 0
Revalidate ==
    /\ pc = "revalidate"
    /\ \E o \in ProbeOutcomes[previous_best], failAt \in FailPoints :
         LET r == o.r IN
         CASE r.tag = "Hang" ->
                /\ pc' = "blocked"
                /\ UNCHANGED <<exitCode, files, written, src, prev_passed,
                               validator_raised, raised>>
           [] r.tag = "Raise" ->
                /\ pc' = "done"
                /\ raised' = "Exception"
                /\ exitCode' = MainExit(raised')
                /\ validator_raised' = TRUE
                /\ UNCHANGED <<files, written, src, prev_passed>>
           [] OTHER ->
                /\ prev_passed' = (r.value # <<>>)
                /\ validator_raised' = validator_raised
                /\ IF FastPathHit(r.value)
                   THEN /\ files' = SaveResults(files, r.value, <<previous_best>>, 1, failAt)
                        /\ written' = SaveWrites(r.value, <<previous_best>>, failAt)
                        /\ pc' = "done"
                        /\ raised' = SaveException(
                                         SaveRaises(r.value, <<previous_best>>, failAt))
                        /\ exitCode' = MainExit(raised')
                        /\ src' = src
                   ELSE /\ pc' = "fetch"
                        /\ src' = SubmittedSources
                        /\ UNCHANGED <<exitCode, files, written, raised>>
    /\ UNCHANGED <<previous_best, fetch_list, all_proxies, tasks, all_results,
                   working_proxies>>

\* a fetch worker runs fetch_proxies_from_source(url)
FetchSource(s) ==
    /\ pc = "fetch"
    /\ src[s].status = "pending"
    /\ \E resp \in SourceResponses :
         src' = [src EXCEPT ![s] = [status |-> "done",
                                    failed |-> SourceFetchFails(resp),
                                    proxies |-> FetchProxiesFromSource(resp),
                                    collected |-> FALSE]]
    /\ UNCHANGED <<pc, exitCode, files, written, previous_best, fetch_list,
                   all_proxies, tasks, all_results, working_proxies, prev_passed,
                   validator_raised, raised>>

\* assignment in place of list.extend
ExtendOverwrites(list, more) == more

\* list.extend
Extend(list, more) == list \o more

\* fetch_all_proxies: as_completed yields a finished future, its list is appended
CollectSource(s) ==
    /\ pc = "fetch"
    /\ src[s].status = "done"
    /\ ~src[s].collected
    /\ fetch_list' = Extend(fetch_list, src[s].proxies)
    /\ src' = [src EXCEPT ![s].collected = TRUE]
    /\ UNCHANGED <<pc, exitCode, files, written, previous_best, all_proxies,
                   tasks, all_results, working_proxies, prev_passed, validator_raised,
                   raised>>

\* fetch_all_proxies: unique_proxies = list(set(all_proxies)), as a set
UniqueProxies(list) == ToSet(list)

\* run(): "if not all_proxies: return"
EmptyPool(unique) == unique = {}

\* the slice forgotten: every candidate of the pool is tested
TestProxiesAll(proxies, max_tests) == proxies

\* test_proxies_batch: test_proxies
TestProxies(proxies, max_tests) ==
    IF Len(proxies) > max_tests THEN SubSeq(proxies, 1, max_tests) ELSE proxies

\* fetch_all_proxies returns; run() returns on an empty pool, else shuffles and
\* test_proxies_batch submits one test_proxy_on_all_sites per candidate
FetchReturn ==
    /\ pc = "fetch"
    /\ \A s \in Sources : src[s].collected
    /\ LET unique == UniqueProxies(fetch_list) IN
       IF EmptyPool(unique)
       THEN /\ pc' = "done"
            /\ exitCode' = MainExit(raised)
            /\ UNCHANGED <<all_proxies, tasks>>
       ELSE /\ \E shuffled \in Perms(unique) :
                 /\ all_proxies' = shuffled
                 /\ tasks' = [i \in DOMAIN TestProxies(shuffled, MaxTests) |->
                                QueuedTask(shuffled[i])]
            /\ pc' = "batch"
            /\ exitCode' = exitCode
    /\ src' = [s \in Sources |-> [src[s] EXCEPT !.proxies = <<>>]]
    /\ fetch_list' = <<>>
    /\ UNCHANGED <<files, written, previous_best, all_results, working_proxies,
                   prev_passed, validator_raised, raised>>

Running == {i \in DOMAIN tasks : tasks[i].status \in {"running", "hung"}}
Queued == {i \in DOMAIN tasks : tasks[i].status = "queued"}

\* an executor that starts a thread per submitted item
WorkerAlwaysFree(max_workers) == TRUE

\* ThreadPoolExecutor(max_workers): a free worker takes the oldest queued item
WorkerFree(max_workers) == Cardinality(Running) < max_workers

TaskStart ==
    /\ pc = "batch"
    /\ Queued # {}
    /\ WorkerFree(MaxWorkers)
    /\ LET i == CHOOSE q \in Queued : \A o \in Queued : q <= o
       IN tasks' = [tasks EXCEPT ![i].status = "running"]
    /\ UNCHANGED <<pc, exitCode, files, written, previous_best, src, fetch_list,
                   all_proxies, all_results, working_proxies, prev_passed,
                   validator_raised, raised>>

\* a worker runs test_proxy_on_all_sites(proxy) to its end, or never returns
TaskFinish(i) ==
    /\ pc = "batch"
    /\ tasks[i].status = "running"
    /\ \E o \in ProbeOutcomes[tasks[i].proxy] :
         LET r == o.r IN
         /\ tasks' = [tasks EXCEPT
                ![i].status = IF r.tag = "Hang" THEN "hung" ELSE "finished",
                ![i].outcome = IF r.tag = "Return" THEN "return"
                               ELSE IF r.tag = "Raise" THEN "raise" ELSE "",
                ![i].result = r.value,
                ![i].sites_ok = o.sites_ok]
         /\ validator_raised' = (validator_raised \/ r.tag = "Raise")
    /\ UNCHANGED <<pc, exitCode, files, written, previous_best, src, fetch_list,
                   all_proxies, all_results, working_proxies, prev_passed, raised>>

\* test_proxies_batch: "if results:" on the value of future.result()
TaskPassed(task) == task.outcome = "return" /\ task.result # <<>>

\* test_proxies_batch: as_completed yields a finished future; future.result()
\* returns at once or raises into the except clause
AsCompleted(i) ==
    /\ pc = "batch"
    /\ tasks[i].status = "finished"
    /\ IF TaskPassed(tasks[i])
       THEN /\ all_results' = all_results \o tasks[i].result
            /\ working_proxies' = Append(working_proxies, tasks[i].proxy)
       ELSE UNCHANGED <<all_results, working_proxies>>
    /\ tasks' = [tasks EXCEPT ![i].status = "consumed",
                              ![i].passed = TaskPassed(tasks[i]),
                              ![i].result = <<>>]
    /\ UNCHANGED <<pc, exitCode, files, written, previous_best, src, fetch_list,
                   all_proxies, prev_passed, validator_raised, raised>>

\* run(): the file written when the scan found nothing
NoneFoundFile == [exists |-> TRUE, kind |-> "none_found", total |-> 0, count |-> 0,
                  proxies |-> <<>>]

\* run(): "if results and working_proxies:"
SavesScan(results, working) == results # <<>> /\ working # <<>>

\* as_completed is exhausted and the executor has shut down:
\* test_proxies_batch returns, run() saves and returns, main() ends
BatchReturn ==
    /\ pc = "batch"
    /\ \A i \in DOMAIN tasks : tasks[i].status = "consumed"
    /\ \E failAt \in FailPoints :
         IF SavesScan(all_results, working_proxies)
         THEN /\ files' = SaveResults(files, all_results, working_proxies,
                                      Len(all_proxies), failAt)
              /\ written' = SaveWrites(all_results, working_proxies, failAt)
              /\ raised' = SaveException(
                               SaveRaises(all_results, working_proxies, failAt))
         ELSE IF failAt = "available_proxies.txt"
         THEN /\ raised' = SaveException(TRUE)
              /\ UNCHANGED <<files, written>>
         ELSE /\ files' = [files EXCEPT !.txt = NoneFoundFile]
              /\ written' = {"available_proxies.txt"}
              /\ raised' = SaveException(FALSE)
    /\ exitCode' = MainExit(raised')
    /\ pc' = "done"
    /\ UNCHANGED <<previous_best, src, fetch_list, all_proxies, tasks,
                   all_results, working_proxies, prev_passed, validator_raised>>

\* the user interrupts the process: KeyboardInterrupt is raised in the main
\* thread, no "except Exception" catches it, main() exits; the files stay as
\* they are and the memory of the process is gone
Interrupt ==
    /\ pc # "done"
    /\ pc' = "done"
    /\ raised' = "KeyboardInterrupt"
    /\ exitCode' = MainExit(raised')
    /\ src' = [s \in Sources |-> IdleSource]
    /\ fetch_list' = <<>>
    /\ all_proxies' = <<>>
    /\ tasks' = <<>>
    /\ all_results' = <<>>
    /\ working_proxies' = <<>>
    /\ UNCHANGED <<files, written, previous_best, prev_passed, validator_raised>>

\* a step of the program itself
RunStep ==
    \/ RunStart
    \/ Revalidate
    \/ \E s \in Sources : FetchSource(s)
    \/ \E s \in Sources : CollectSource(s)
    \/ FetchReturn
    \/ TaskStart
    \/ \E i \in DOMAIN tasks : TaskFinish(i)
    \/ \E i \in DOMAIN tasks : AsCompleted(i)
    \/ BatchReturn

Next ==
    \/ RunStep
    \/ Interrupt

Spec == Init /\ [][Next]_vars

-----------------------------------------------------------------------------
(* Properties *)

Persisted(name) == name \in written

AllSourcesFailed == \A s \in Sources : src[s].status = "done" /\ src[s].failed

\* every adjacent pair of listed proxies is in non-decreasing mean latency
ListNonDecreasing(proxies, results) ==
    \A i \in 1..(Len(proxies) - 1) :
        ~AvgLess(ProxyStat(results, proxies[i + 1]), ProxyStat(results, proxies[i]))

\* results holds exactly one result per test website for every proxy in it
OnePerWebsite(results) ==
    \A i \in DOMAIN results :
        \A k \in Sites :
            Cardinality({j \in DOMAIN results :
                            /\ results[j].proxy = results[i].proxy
                            /\ results[j].website = TEST_WEBSITES[k]}) = 1

\* the normal form of the specification's Deduplicator: scheme prefix stripped
Normalize(proxy) ==
    IF Len(proxy) >= 2 /\ proxy[2] = "://" THEN SubSeq(proxy, 3, Len(proxy)) ELSE proxy

\* the candidates the successful sources returned
OkUnion == UNION {ToSet(src[s].proxies) : s \in {t \in Sources : ~src[t].failed}}

\* the step in which fetch_all_proxies returns to run()
FetchReturns == pc = "fetch" /\ pc' # "fetch" /\ raised' # "KeyboardInterrupt"

BatchOver == pc = "done" /\ tasks # <<>>

\* C1: when the previous best exists and test_proxy_on_all_sites passes for
\* it, the run ends without fetching any source URL and without submitting a
\* validation task, and, unless writing a file failed, the persisted working
\* set is exactly that one proxy.
C1_FastPath ==
    prev_passed =>
        /\ previous_best # <<>>
        /\ pc = "done"
        /\ \A s \in Sources : src[s].status = "idle"
        /\ tasks = <<>>
        /\ exitCode = 0 =>
             /\ Persisted("available_proxies.txt")
             /\ files.txt.kind = "list"
             /\ files.txt.proxies = <<previous_best>>
             /\ Persisted("proxy_results.json")
             /\ files.json.working = 1
             /\ {files.json.results[i].proxy : i \in DOMAIN files.json.results}
                  = {previous_best}

C1_Witness == prev_passed /\ pc = "done" /\ exitCode = 0

\* C2: when every source fetch failed, the run ends with exit code 0 and has
\* written an empty result set to proxy_results.json and available_proxies.txt.
C2_TotalFailureWritesEmpty ==
    (pc = "done" /\ AllSourcesFailed) =>
        /\ exitCode = 0
        /\ Persisted("proxy_results.json")
        /\ files.json.results = <<>>
        /\ Persisted("available_proxies.txt")
        /\ files.txt.proxies = <<>>

\* C3: every exit IP recorded in a collected or persisted validation result
\* is an IPv4 literal and differs from the reference IP.
C3_ExitIpGuard ==
    /\ \A i \in DOMAIN all_results :
          IsIPv4(all_results[i].ip) /\ all_results[i].ip # ReferenceIP
    /\ Persisted("proxy_results.json") =>
          \A i \in DOMAIN files.json.results :
              /\ IsIPv4(files.json.results[i].ip)
              /\ files.json.results[i].ip # ReferenceIP

\* C4: the candidates in the result list this run wrote to proxy_results.json
\* and in the proxy list it wrote to available_proxies.txt are in
\* non-decreasing order of latency.
C4_PersistedSorted ==
    (Persisted("proxy_results.json") /\ Persisted("available_proxies.txt")) =>
        /\ ListNonDecreasing(ProxyGroupKeys(files.json.results, <<>>), files.json.results)
        /\ ListNonDecreasing(files.txt.proxies, files.json.results)

\* C5: the pool fetch_all_proxies returns holds no two entries that are
\* identical after normalization.
C5_NoDuplicateAfterNormalize ==
    \A i, j \in DOMAIN all_proxies :
        i # j => Normalize(all_proxies[i]) # Normalize(all_proxies[j])

\* C6: test_proxy_on_all_sites returns a non-empty list exactly when the check
\* on every website succeeded, and then one entry per website; a candidate
\* with fewer successful checks is never in the working set, and every proxy
\* in the collected or persisted results has one result per website.
C6_AllSitesOrNothing ==
    /\ \A i \in DOMAIN tasks :
          tasks[i].status = "finished" /\ tasks[i].outcome = "return" =>
              /\ tasks[i].result # <<>> <=> tasks[i].sites_ok = Len(TEST_WEBSITES)
              /\ tasks[i].result # <<>> =>
                    /\ Len(tasks[i].result) = Len(TEST_WEBSITES)
                    /\ \A k \in Sites :
                          /\ tasks[i].result[k].website = TEST_WEBSITES[k]
                          /\ tasks[i].result[k].proxy = tasks[i].proxy
    /\ \A i \in DOMAIN tasks :
          tasks[i].proxy \in ToSet(working_proxies) =>
              tasks[i].sites_ok = Len(TEST_WEBSITES)
    /\ OnePerWebsite(all_results)
    /\ Persisted("proxy_results.json") => OnePerWebsite(files.json.results)

C6_Witness ==
    /\ BatchOver
    /\ Persisted("proxy_results.json")
    /\ \E i, j \in DOMAIN tasks :
          /\ tasks[i].sites_ok = Len(TEST_WEBSITES) - 1
          /\ ~tasks[i].passed
          /\ tasks[j].passed

\* C7: no test_single_proxy call raises, no validation future holds an
\* exception, and a batch always runs to its end with the working list holding
\* exactly the candidates whose every check succeeded, each once, whatever
\* happened to the other candidates.
C7_ValidatorNeverRaises ==
    /\ ~validator_raised
    /\ \A i \in DOMAIN tasks : tasks[i].outcome # "raise"
    /\ BatchOver =>
          /\ \A i \in DOMAIN tasks : tasks[i].status = "consumed"
          /\ ToSet(working_proxies) =
                {tasks[i].proxy : i \in {j \in DOMAIN tasks :
                                            tasks[j].sites_ok = Len(TEST_WEBSITES)}}
          /\ Len(working_proxies) = Cardinality(ToSet(working_proxies))
          /\ Len(all_results) = Len(TEST_WEBSITES) * Len(working_proxies)

C7_Witness ==
    /\ BatchOver
    /\ Len(tasks) = 2
    /\ tasks[1].sites_ok < Len(TEST_WEBSITES)
    /\ working_proxies = <<tasks[2].proxy>>

\* C8: a run that ends with exit code 0 has rewritten proxy_results.json,
\* available_proxies.txt and BEST_SOCKS5.txt.
C8_AllArtifactsRewritten ==
    (pc = "done" /\ exitCode = 0) =>
        {"proxy_results.json", "available_proxies.txt", "BEST_SOCKS5.txt"} \subseteq written

C10_BatchNeverStuck == pc = "batch" => ENABLED RunStep

\* a validation that was submitted and has not ended
Outstanding(task) == task.status \in {"queued", "running", "hung"}

\* the step starts a queued validation task
TaskStarts ==
    \E i \in DOMAIN tasks \cap DOMAIN tasks' :
        tasks[i].status = "queued" /\ tasks'[i].status = "running"

AllSitesPassed(task) ==
    task.outcome = "return" /\ task.sites_ok = Len(TEST_WEBSITES)

\* C11: while test_proxies_batch runs, the validations executing at the same
\* time (a task that never returns keeps its thread) are at most max_workers.
C11_WorkerBound == Cardinality(Running) <= MaxWorkers

C11_Witness ==
    /\ pc = "batch"
    /\ Cardinality(Running) = MaxWorkers
    /\ Queued # {}

\* C12: no two outstanding validation tasks are for the same candidate
\* string, and while the previous best is being revalidated no task of the
\* scan exists.
C12_OneOutstandingPerCandidate ==
    /\ \A i, j \in DOMAIN tasks :
          (i # j /\ Outstanding(tasks[i]) /\ Outstanding(tasks[j])) =>
              tasks[i].proxy # tasks[j].proxy
    /\ pc \in {"revalidate", "blocked"} => tasks = <<>>

C12_Witness ==
    /\ pc = "batch"
    /\ Len(tasks) = MaxTests
    /\ \A i \in DOMAIN tasks : Outstanding(tasks[i])
    /\ \E i \in DOMAIN tasks :
          tasks[i].proxy = previous_best /\ tasks[i].status = "running"

\* C13: the tasks of a batch are the first min(len(proxies), max_tests)
\* candidates of the shuffled pool, in order; at every moment the working list
\* holds exactly the consumed tasks whose validation returned a result for
\* every site, each once, with their results; and the batch returns only when
\* every task is consumed.
C13_DispatchAndCollect ==
    tasks # <<>> =>
        /\ Len(tasks) = IF Len(all_proxies) < MaxTests THEN Len(all_proxies) ELSE MaxTests
        /\ \A i \in DOMAIN tasks : tasks[i].proxy = all_proxies[i]
        /\ ToSet(working_proxies) =
              {tasks[i].proxy : i \in {j \in DOMAIN tasks :
                  tasks[j].status = "consumed" /\ AllSitesPassed(tasks[j])}}
        /\ \A i, j \in DOMAIN working_proxies :
              i # j => working_proxies[i] # working_proxies[j]
        /\ Len(all_results) = Len(TEST_WEBSITES) * Len(working_proxies)
        /\ \A i \in DOMAIN working_proxies : \A k \in Sites :
              LET r == all_results[Len(TEST_WEBSITES) * (i - 1) + k] IN
              r.proxy = working_proxies[i] /\ r.website = TEST_WEBSITES[k]
        /\ pc = "done" => \A i \in DOMAIN tasks : tasks[i].status = "consumed"

C13_Witness ==
    /\ BatchOver
    /\ Len(all_proxies) > MaxTests
    /\ Len(working_proxies) = 1
    /\ \E i \in DOMAIN tasks : ~AllSitesPassed(tasks[i])

\* C14: in early-stop mode with a threshold of n successes, once n successes
\* are collected no queued validation task is started.
C14_EarlyStop ==
    [][(\E n \in 1..MaxTests : Len(working_proxies) >= n) => ~TaskStarts]_vars

\* the results of one proxy within a result list, in their order
ResultsOf(results, proxy) == SelectSeq(results, LAMBDA r : r.proxy = proxy)

\* the result list of a batch whose passing tasks are consumed in this order
RECURSIVE ResultsInOrder(_, _)
ResultsInOrder(order, results) ==
    IF order = <<>> THEN <<>>
    ELSE ResultsOf(results, Head(order)) \o ResultsInOrder(Tail(order), results)

\* the artifacts save_results leaves when the passing tasks of this batch
\* are consumed in the given order
ArtifactsInOrder(order) ==
    SaveResults(NoFiles, ResultsInOrder(order, all_results), order, Len(all_proxies), "")

\* C15: when a batch has been saved, the order of available_proxies.txt, the
\* order of the results of proxy_results.json and the proxy in BEST_SOCKS5.txt
\* are what every other order of completion of the same tasks with the same
\* outcomes leaves.
C15_CompletionOrderIrrelevant ==
    (BatchOver /\ raised = "" /\ Persisted("proxy_results.json")) =>
        \A order \in Perms(ToSet(working_proxies)) :
            /\ ArtifactsInOrder(order).txt.proxies = files.txt.proxies
            /\ ArtifactsInOrder(order).json.results = files.json.results
            /\ ArtifactsInOrder(order).best.text = files.best.text

\* the run ended on one of the three paths that write artifacts, every file
\* of the path written
WroteWholePath ==
    \/ written = FileNames
    \/ written = {"available_proxies.txt"} /\ files.txt = NoneFoundFile
    \/ written = {} /\ tasks = <<>> /\ ~prev_passed

\* C16: a failing write of an artifact ends the process with a non-zero exit
\* code, on the fast path and after a scan with or without working proxies;
\* a run that ends with exit code 0 has written every file of its path.
C16_WriteFailureSurfaces ==
    /\ raised = "OSError" => (pc = "done" /\ exitCode # 0)
    /\ (pc = "done" /\ exitCode = 0) =>
          (raised # "OSError" /\ (raised = "" => WroteWholePath))

C16_Witness ==
    /\ raised = "OSError"
    /\ BatchOver
    /\ working_proxies = <<>>
    /\ written = {}

\* C17: the exit code after a KeyboardInterrupt is not 0 and is not the exit
\* code after an unhandled error; the exit code after an unhandled error is
\* not 0.
C17_DistinctExitCodes ==
    pc = "done" =>
        /\ raised = "KeyboardInterrupt" =>
              (exitCode # 0 /\ exitCode # MainExit("OSError"))
        /\ raised \notin {"", "KeyboardInterrupt"} => exitCode # 0

\* C18: total_proxies_tested of the proxy_results.json this run wrote is the
\* number of candidates whose validation was dispatched: the tasks of the
\* batch, or the one previous best on the fast path.
C18_TotalTestedIsDispatched ==
    Persisted("proxy_results.json") =>
        files.json.tested = IF tasks = <<>> THEN 1 ELSE Len(tasks)

\* C19: the proxy this run wrote to BEST_SOCKS5.txt is a working proxy of the
\* run, no working proxy has a lower mean latency over its site checks, and
\* the first proxy of the report's ranking has no lower mean latency either.
C19_BestHasLowestMean ==
    Persisted("BEST_SOCKS5.txt") =>
        LET results == files.json.results
            best == ProxyStat(results, files.best.text)
        IN /\ files.best.text \in ToSet(files.txt.proxies)
           /\ \A p \in ToSet(files.txt.proxies) : ~AvgLess(ProxyStat(results, p), best)
           /\ Persisted("proxy_report.html") => ~AvgLess(files.html.ranking[1], best)

\* C20: after a run that ended with exit code 0, if BEST_SOCKS5.txt exists,
\* the proxy it names passed validation in this run, is listed in
\* available_proxies.txt and has results in proxy_results.json.
C20_ArtifactsConsistent ==
    (pc = "done" /\ exitCode = 0 /\ files.best.exists) =>
        LET best == Strip(files.best.text) IN
        /\ \/ best \in ToSet(working_proxies)
           \/ prev_passed /\ best = previous_best
        /\ files.txt.exists /\ best \in ToSet(files.txt.proxies)
        /\ files.json.exists
        /\ \E i \in DOMAIN files.json.results : files.json.results[i].proxy = best

====
